---- MODULE Spec2Model ----
(***************************************************************************)
(* Model of the review extraction engine of ECom-Intel                     *)
(* (src/firecrawl_client.py): the line segmenter                           *)
(* FirecrawlClient.extract_reviews_from_content with its four rating       *)
(* patterns, the rating normalizer _normalize_rating and the heuristic     *)
(* classifier _is_likely_review.                                           *)
(*                                                                         *)
(* Text is modelled by TLA+ strings over ASCII.  The character "*" stands  *)
(* for the star glyph U+2605 of the fourth pattern, the blank is the only  *)
(* whitespace character, and a page is the sequence content.split('\n').   *)
(* A Python Optional is a sequence of length 0 (None) or 1 (the value).    *)
(* A float is the exact rational [n |-> numerator, d |-> denominator].     *)
(***************************************************************************)
EXTENDS Integers, Sequences, FiniteSets, TLC

(***************************************************************************)
(* Characters and strings                                                  *)
(***************************************************************************)
Digits == {"0", "1", "2", "3", "4", "5", "6", "7", "8", "9"}

\* s[k] as a one-character string; "" outside the string
Ch(s, k) == IF k >= 1 /\ k <= Len(s) THEN SubSeq(s, k, k) ELSE ""

\* s[a:b] with Python's 0-based half-open slice written 1-based inclusive
Slice(s, a, b) ==
    IF a > b \/ a > Len(s) THEN "" ELSE SubSeq(s, a, IF b > Len(s) THEN Len(s) ELSE b)

IsDigit(c) == c \in Digits

IsSpace(c) == c = " "

Min(S) == CHOOSE x \in S : \A y \in S : x <= y

\* str.lower() on one character
LowerCh(c) ==
    CASE c = "A" -> "a"
      [] c = "B" -> "b"
      [] c = "C" -> "c"
      [] c = "D" -> "d"
      [] c = "E" -> "e"
      [] c = "F" -> "f"
      [] c = "G" -> "g"
      [] c = "H" -> "h"
      [] c = "I" -> "i"
      [] c = "J" -> "j"
      [] c = "K" -> "k"
      [] c = "L" -> "l"
      [] c = "M" -> "m"
      [] c = "N" -> "n"
      [] c = "O" -> "o"
      [] c = "P" -> "p"
      [] c = "Q" -> "q"
      [] c = "R" -> "r"
      [] c = "S" -> "s"
      [] c = "T" -> "t"
      [] c = "U" -> "u"
      [] c = "V" -> "v"
      [] c = "W" -> "w"
      [] c = "X" -> "x"
      [] c = "Y" -> "y"
      [] c = "Z" -> "z"
      [] OTHER -> c

RECURSIVE Lower(_)
\* str.lower()
Lower(s) == IF s = "" THEN "" ELSE LowerCh(Head(s)) \o Lower(Tail(s))

\* str.strip()
Strip(s) ==
    LET lead  == {k \in 1..Len(s) : ~IsSpace(Ch(s, k))}
        trail == {k \in 1..Len(s) : ~IsSpace(Ch(s, Len(s) + 1 - k))}
    IN  IF lead = {} THEN "" ELSE SubSeq(s, Min(lead), Len(s) + 1 - Min(trail))

\* sub in s
Contains(s, sub) ==
    \E p \in 1..(Len(s) - Len(sub) + 1) : SubSeq(s, p, p + Len(sub) - 1) = sub

\* len(s.split())
WordCount(s) ==
    Cardinality({p \in 1..Len(s) : ~IsSpace(Ch(s, p)) /\ (p = 1 \/ IsSpace(Ch(s, p - 1)))})

(***************************************************************************)
(* Pieces of the regular expressions.  Every operator returns the position *)
(* just after what it consumed, which is the position of the next          *)
(* character to read.                                                      *)
(***************************************************************************)
\* \d+ (greedy) read at p: the end of the maximal run of digits
DigitRunEnd(s, p) == Min({e \in p..(Len(s) + 1) : ~IsDigit(Ch(s, e))})

\* \s* (greedy) read at p
SpaceRunEnd(s, p) == Min({e \in p..(Len(s) + 1) : ~IsSpace(Ch(s, e))})

\* [:\s]* (greedy) read at p
ColonSpaceRunEnd(s, p) ==
    Min({e \in p..(Len(s) + 1) : ~(IsSpace(Ch(s, e)) \/ Ch(s, e) = ":")})

\* \d+(?:\.\d+)? read at p: the ends the matcher tries, in its order (with
\* the fraction first, then without).  A shorter run of digits is followed
\* by a digit, which none of the patterns accepts after the number, so the
\* backtracking into \d+ is left out.
NumberEnds(s, p) ==
    IF ~IsDigit(Ch(s, p)) THEN <<>>
    ELSE LET e == DigitRunEnd(s, p)
         IN  IF Ch(s, e) = "." /\ IsDigit(Ch(s, e + 1))
             THEN <<DigitRunEnd(s, e + 1), e>>
             ELSE <<e>>

\* \s*star (IGNORECASE) read at e
StarWordAt(s, e) == Lower(Slice(s, SpaceRunEnd(s, e), SpaceRunEnd(s, e) + 3)) = "star"

\* \d+(?:\.\d+)?\s*star read at p: the end of the number, the first of
\* NumberEnds after which \s*star matches; 0 if none
StarNumberEnd(s, p) ==
    LET ends == NumberEnds(s, p)
        good == {k \in 1..Len(ends) : StarWordAt(s, ends[k])}
    IN  IF good = {} THEN 0 ELSE ends[Min(good)]

\* the lookahead \d+(?:\.\d+)?\s*stars? at u
LookStars(s, u) == StarNumberEnd(s, u) # 0

\* Rating[:\s]*\d+ (IGNORECASE) read at u: the position of the number, 0 if none
RatingWordAt(s, u) ==
    IF u >= 1 /\ Lower(Slice(s, u, u + 5)) = "rating"
       /\ IsDigit(Ch(s, ColonSpaceRunEnd(s, u + 6)))
    THEN ColonSpaceRunEnd(s, u + 6)
    ELSE 0

\* the lookahead Rating[:\s]*\d+(?:\.\d+)? at u
LookRating(s, u) == RatingWordAt(s, u) # 0

\* \d+\/5 read at u: the position after it, 0 if none
OutOfFiveAt(s, u) ==
    IF IsDigit(Ch(s, u)) /\ Ch(s, DigitRunEnd(s, u)) = "/"
       /\ Ch(s, DigitRunEnd(s, u) + 1) = "5"
    THEN DigitRunEnd(s, u) + 2
    ELSE 0

\* the lookahead \d+\/5 at u
LookOutOfFive(s, u) == OutOfFiveAt(s, u) # 0

\* the lookahead of the glyph pattern at u
LookGlyph(s, u) == Ch(s, u) = "*"

\* whether pattern k matches at position p, and whether its lookahead holds
\* there: the lookahead of a pattern is its marker, and what follows the
\* marker matches anywhere, so the marker decides
MatchesAt(k, s, p) ==
    CASE k = 1 -> LookStars(s, p)
      [] k = 2 -> LookRating(s, p)
      [] k = 3 -> LookOutOfFive(s, p)
      [] k = 4 -> LookGlyph(s, p)

\* (.*?)(?=marker|$) of pattern k read at t: the lazy group ends at the first
\* position at which the lookahead holds or the line ends (a line holds no
\* newline)
LazyEnd(k, s, t) == Min({u \in t..(Len(s) + 1) : u = Len(s) + 1 \/ MatchesAt(k, s, u)})

NoMatch == [found |-> FALSE, groups |-> <<>>]

Match(gs) == [found |-> TRUE, groups |-> gs]

(***************************************************************************)
(* review_patterns: each pattern matched at position p of a line.  After   *)
(* the marker every pattern ends in \s*(.*?)(?=...|$) or (.*?)(?=...|$),   *)
(* which succeeds at any position, so the greedy choices before it are     *)
(* never undone.                                                           *)
(***************************************************************************)
\* r'(\d+(?:\.\d+)?)\s*stars?\s*(.*?)(?=\d+(?:\.\d+)?\s*stars?|$)'
Pattern1At(s, p) ==
    LET ne == StarNumberEnd(s, p)
        w  == SpaceRunEnd(s, ne) + 4
        r  == IF Lower(Ch(s, w)) = "s" THEN w + 1 ELSE w
        t  == SpaceRunEnd(s, r)
        u  == LazyEnd(1, s, t)
    IN  IF ne = 0 THEN NoMatch
        ELSE Match(<<Slice(s, p, ne - 1), Slice(s, t, u - 1)>>)

\* r'Rating[:\s]*(\d+(?:\.\d+)?)[\s\S]*?(.*?)(?=Rating[:\s]*\d+(?:\.\d+)?|$)'
\* The lazy [\s\S]*? stays empty: the group after it is extended first.
Pattern2At(s, p) ==
    LET q  == RatingWordAt(s, p)
        ne == NumberEnds(s, q)[1]
        u  == LazyEnd(2, s, ne)
    IN  IF q = 0 THEN NoMatch
        ELSE Match(<<Slice(s, q, ne - 1), Slice(s, ne, u - 1)>>)

\* r'(\d+)\/5\s*(.*?)(?=\d+\/5|$)'
Pattern3At(s, p) ==
    LET e == OutOfFiveAt(s, p)
        t == SpaceRunEnd(s, e)
        u == LazyEnd(3, s, t)
    IN  IF e = 0 THEN NoMatch
        ELSE Match(<<Slice(s, p, e - 3), Slice(s, t, u - 1)>>)

\* the quantifier {1,5} of the glyph pattern: the glyphs consumed at p
GlyphRunEnd(s, p) ==
    Min({e \in p..(Len(s) + 1) : Ch(s, e) # "*" \/ e = p + 5})

\* r'[glyph]{1,5}\s*(.*?)(?=[glyph]{1,5}|$)': one group only
Pattern4At(s, p) ==
    LET t == SpaceRunEnd(s, GlyphRunEnd(s, p))
        u == LazyEnd(4, s, t)
    IN  IF Ch(s, p) # "*" THEN NoMatch
        ELSE Match(<<Slice(s, t, u - 1)>>)

review_patterns == <<1, 2, 3, 4>>

PatternAt(k, s, p) ==
    CASE k = 1 -> Pattern1At(s, p)
      [] k = 2 -> Pattern2At(s, p)
      [] k = 3 -> Pattern3At(s, p)
      [] k = 4 -> Pattern4At(s, p)

\* re.search(pattern, line, re.IGNORECASE): the match at the leftmost
\* position at which the pattern matches
re_search(k, s) ==
    LET at == {p \in 1..Len(s) : MatchesAt(k, s, p)}
    IN  IF at = {} THEN NoMatch ELSE PatternAt(k, s, Min(at))

RECURSIVE FirstMatch(_, _)
\* the loop of lines 123-127 from pattern k on
FirstMatch(k, line) ==
    IF k > Len(review_patterns) THEN NoMatch
    ELSE IF re_search(review_patterns[k], line).found
         THEN re_search(review_patterns[k], line)
         ELSE FirstMatch(k + 1, line)

\* the match of the first pattern that matches the line
rating_match(line) == FirstMatch(1, line)

(***************************************************************************)
(* _normalize_rating                                                       *)
(***************************************************************************)
DigitVal(c) == CHOOSE v \in 0..9 : Ch("0123456789", v + 1) = c

RECURSIVE ToNat(_)
\* the value of a string of digits
ToNat(s) == IF s = "" THEN 0 ELSE ToNat(Slice(s, 1, Len(s) - 1)) * 10 + DigitVal(Ch(s, Len(s)))

RECURSIVE Pow10(_)
Pow10(k) == IF k = 0 THEN 1 ELSE 10 * Pow10(k - 1)

\* float(numeral) of a numeral \d+(?:\.\d+)?, as an exact rational
ToFloat(numeral) ==
    LET e == DigitRunEnd(numeral, 1)
    IN  IF e > Len(numeral) THEN [n |-> ToNat(numeral), d |-> 1]
        ELSE [n |-> ToNat(Slice(numeral, 1, e - 1)) * Pow10(Len(numeral) - e)
                      + ToNat(Slice(numeral, e + 1, Len(numeral))),
              d |-> Pow10(Len(numeral) - e)]

\* line 206 without the clamp
Clamp_Missing(v) == v

\* max(1, min(5, rating_value))
Clamp(v) ==
    LET m == IF v.n > 5 * v.d THEN [n |-> 5, d |-> 1] ELSE v
    IN  IF m.n < m.d THEN [n |-> 1, d |-> 1] ELSE m

\* line 203 with < 1 for <= 1
Rescale_StrictOne(v) ==
    IF v.n > 5 * v.d THEN [n |-> v.n, d |-> 20 * v.d]
    ELSE IF v.n < v.d THEN [n |-> 5 * v.n, d |-> v.d]
    ELSE v

\* the scale conversion of lines 201-204
Rescale(v) ==
    IF v.n > 5 * v.d THEN [n |-> v.n, d |-> 20 * v.d]
    ELSE IF v.n <= v.d THEN [n |-> 5 * v.n, d |-> v.d]
    ELSE v

\* re.search(r'(\d+(?:\.\d+)?)', str(rating)): the first numeral of the token
FirstNumeral(rating) ==
    LET at == {p \in 1..Len(rating) : IsDigit(Ch(rating, p))}
    IN  IF at = {} THEN <<>>
        ELSE <<Slice(rating, Min(at), NumberEnds(rating, Min(at))[1] - 1)>>

_normalize_rating(rating) ==
    IF FirstNumeral(rating) = <<>> THEN <<>>
    ELSE <<Clamp(Rescale(ToFloat(FirstNumeral(rating)[1])))>>

(***************************************************************************)
(* _is_likely_review                                                       *)
(***************************************************************************)
review_indicators ==
    <<"great", "good", "bad", "excellent", "poor", "love", "hate",
      "recommend", "quality", "price", "service", "delivery",
      "package", "product", "item", "worked", "didn't work">>

\* sum(1 for indicator in review_indicators if indicator in text_lower)
indicator_count(text) ==
    Cardinality({k \in 1..Len(review_indicators) : Contains(Lower(text), review_indicators[k])})

word_count(text) == WordCount(text)

\* line 256 with word_count > 10 for word_count >= 10
_is_likely_review_MoreThanTen(text) ==
    \/ indicator_count(text) >= 2 /\ word_count(text) > 10
    \/ indicator_count(text) >= 1 /\ word_count(text) >= 20

_is_likely_review(text) ==
    \/ indicator_count(text) >= 2 /\ word_count(text) >= 10
    \/ indicator_count(text) >= 1 /\ word_count(text) >= 20

(***************************************************************************)
(* _extract_reviewer_name                                                  *)
(***************************************************************************)
LowerLetters == {Ch("abcdefghijklmnopqrstuvwxyz", k) : k \in 1..26}

\* [a-z]
IsLowerLetter(c) == c \in LowerLetters

\* [A-Z]
IsUpperLetter(c) == c # "" /\ LowerCh(c) # c

\* [a-z]* (greedy) read at p
LowerRunEnd(s, p) == Min({e \in p..(Len(s) + 1) : ~IsLowerLetter(Ch(s, e))})

\* [A-Z][a-z]+\s+[A-Z][a-z]+ read at p: whether it matches, and the least
\* and the greatest end of the second word.  The first word and the blanks
\* have one length that lets the rest match: a shorter first word is
\* followed by a letter, fewer blanks by a blank.
NameSpan(s, p) ==
    LET e1 == LowerRunEnd(s, p + 1)
        e2 == SpaceRunEnd(s, e1)
        e3 == LowerRunEnd(s, e2 + 1)
    IN  IF /\ IsUpperLetter(Ch(s, p)) /\ e1 > p + 1
           /\ e2 > e1
           /\ IsUpperLetter(Ch(s, e2)) /\ e3 > e2 + 1
        THEN [ok |-> TRUE, lo |-> e2 + 2, hi |-> e3]
        ELSE [ok |-> FALSE, lo |-> 0, hi |-> 0]

\* \s*said read at t
SaidAt(s, t) == Slice(s, SpaceRunEnd(s, t), SpaceRunEnd(s, t) + 3) = "said"

\* the three patterns of lines 213-217 read at p: the span <<first, end>> of
\* group 1, or <<>> if the pattern does not match at p
NamePatternAt(k, s, p) ==
    CASE k = 1 ->
           LET q == SpaceRunEnd(s, p + 2)
           IN  IF Slice(s, p, p + 1) = "by" /\ q > p + 2 /\ NameSpan(s, q).ok
               THEN <<q, NameSpan(s, q).hi>> ELSE <<>>
      [] k = 2 ->
           LET q == SpaceRunEnd(s, p + 1)
           IN  IF Ch(s, p) = "-" /\ NameSpan(s, q).ok
               THEN <<q, NameSpan(s, q).hi>> ELSE <<>>
      [] k = 3 ->
           LET n    == NameSpan(s, p)
               ends == {t \in n.lo..n.hi : SaidAt(s, t)}
           IN  IF n.ok /\ ends # {}
               THEN <<p, CHOOSE t \in ends : \A u \in ends : u <= t>> ELSE <<>>

\* re.search(patterns[k], review_text): group 1 of the leftmost match
NameSearch(k, s) ==
    LET ps == {p \in 1..Len(s) : NamePatternAt(k, s, p) # <<>>}
    IN  IF ps = {} THEN <<>>
        ELSE LET g == NamePatternAt(k, s, Min(ps)) IN <<SubSeq(s, g[1], g[2] - 1)>>

\* the first of the three patterns that matches gives the name
_extract_reviewer_name(review_text) ==
    IF NameSearch(1, review_text) # <<>> THEN NameSearch(1, review_text)
    ELSE IF NameSearch(2, review_text) # <<>> THEN NameSearch(2, review_text)
    ELSE NameSearch(3, review_text)

(***************************************************************************)
(* Inputs                                                                  *)
(***************************************************************************)
MaxLines == 3

MaxTokenLen == 3

MaxKeyWords == 2

MaxFiller == 19

\* the lines a page is made of, before line.strip()
Pool ==
    { "",
      "  4 stars   ",
      "Rated 5 stars",
      "Rating: 5   Rating: 4 ok",
      "3/5 and 4 Stars fine",
      "2/5 bad service",
      "**** bad item",
      "**********",
      "a good item b c d e f g h",
      "a good item b c d e f g" }

\* the page of the segmentation example
ExamplePage ==
    << "5 stars",
       "Great product, love it, would recommend",
       "2 stars",
       "Terrible, broke immediately, waste of money" >>

Pages == UNION {[1..n -> Pool] : n \in 0..MaxLines} \cup {ExamplePage}

Urls == {"https://shop.example/p/reviews"}

TokenChars == {"0", "1", "3", "5", "6", "8", "9", ".", "x"}

RECURSIVE Strings(_, _)
\* the strings of at most n characters of cs
Strings(cs, n) ==
    IF n = 0 THEN {""}
    ELSE Strings(cs, n - 1) \cup {s \o c : s \in Strings(cs, n - 1), c \in cs}

Tokens == Strings(TokenChars, MaxTokenLen)

Vocabulary == {"Good", "item", "plain"}

RECURSIVE Join(_)
\* ' '.join(words)
Join(words) ==
    IF words = <<>> THEN ""
    ELSE IF Len(words) = 1 THEN words[1]
    ELSE words[1] \o " " \o Join(Tail(words))

\* up to MaxKeyWords words of the vocabulary followed by up to MaxFiller
\* words without any indicator
Texts ==
    { Join(head \o [k \in 1..f |-> "x"]) :
        head \in UNION {[1..n -> Vocabulary] : n \in 0..MaxKeyWords},
        f \in 0..MaxFiller }

(***************************************************************************)
(* State                                                                   *)
(***************************************************************************)
VARIABLES
    lines,           \* content.split('\n')
    source_url,
    i,               \* the index of the next line of the loop (from 1)
    current_review,
    current_rating,  \* None or the rating token
    reviews,
    pc,              \* "loop", "done": extract_reviews_from_content;
                     \* "normalize", "normalized": a call of
                     \* _normalize_rating alone; "classify", "classified":
                     \* a call of _is_likely_review alone
    arg,             \* the argument of that call
    ret              \* None before the call returns, then the result

VARIABLES
    all_reviews,     \* get_product_reviews: the records of all the pages
    unique_reviews,
    seen_texts,
    next_review,     \* the index of the next record of the loop of line 283
    passes,          \* the runs of the deduplication so far
    product_reviews, \* "reviews" of main and of analyze_reviews: one list of
                     \* dicts, shared by the caller and the analyzer
    next_analyzed,   \* the index of the next record of the loop of line 32
    analysis_result, \* None or the dict analyze_reviews returns
    responses,       \* the outcomes of the chat completions requested so far
    message,         \* the st.error text of main, "" if none
    products,        \* the rows of the three tables, in insertion order
    review_rows,
    analysis_rows,
    product_id,
    added_count,     \* the value add_reviews returned last
    calls            \* the calls made on the database so far

segmenter == <<lines, source_url, i, current_review, current_rating, reviews>>

dedup == <<all_reviews, unique_reviews, seen_texts, next_review, passes>>

analysis == <<product_reviews, next_analyzed, analysis_result, responses>>

store == <<products, review_rows, analysis_rows>>

app == <<message, product_id, added_count, calls>>

vars ==
    <<lines, source_url, i, current_review, current_rating, reviews, pc, arg, ret,
      all_reviews, unique_reviews, seen_texts, next_review, passes,
      product_reviews, next_analyzed, analysis_result, responses,
      message, products, review_rows, analysis_rows, product_id, added_count, calls>>

None == <<>>

Some(v) == <<v>>

\* nothing fetched, analysed or stored
IdlePipeline ==
    /\ all_reviews = <<>>
    /\ unique_reviews = <<>>
    /\ seen_texts = {}
    /\ next_review = 1
    /\ passes = 0
    /\ product_reviews = <<>>
    /\ next_analyzed = 1
    /\ analysis_result = None
    /\ responses = <<>>
    /\ message = ""
    /\ products = <<>>
    /\ review_rows = <<>>
    /\ analysis_rows = <<>>
    /\ product_id = 0
    /\ added_count = 0
    /\ calls = 0

\* the segmenter is not running
IdleSegmenter ==
    /\ lines = <<>>
    /\ source_url = ""
    /\ i = 1
    /\ current_review = ""
    /\ current_rating = None
    /\ reviews = <<>>

(***************************************************************************)
(* extract_reviews_from_content                                            *)
(***************************************************************************)
MIN_LINE_LENGTH == 10

\* the test of line 118 without its length part
Skipped_EmptyOnly(line) == line = ""

\* the test of line 118 with a threshold of 5
Skipped_Under5(line) == line = "" \/ Len(line) < 5

\* not line or len(line) < 10
Skipped(line) == line = "" \/ Len(line) < MIN_LINE_LENGTH

\* the test of lines 131 and 153 without current_rating
HasReview_TextOnly(review, rating) == review # ""

\* if current_review and current_rating
HasReview(review, rating) == review # "" /\ rating # None /\ rating[1] # ""

\* str(rating) of line 196
Str(rating) == IF rating = None THEN "None" ELSE rating[1]

\* the dict appended to reviews (review_date left out)
ReviewRecord(review, rating, url) ==
    [review_text   |-> Strip(review),
     rating        |-> _normalize_rating(Str(rating)),
     reviewer_name |-> _extract_reviewer_name(review),
     source_url    |-> url]

\* reviews after "save previous review if exists" and "the last review"
Saved(rs, review, rating, url) ==
    IF HasReview(review, rating) THEN Append(rs, ReviewRecord(review, rating, url)) ELSE rs

\* current_rating of a new review
NewRating(m, line) == Some(m.groups[1])

\* current_review of a new review
NewReview(m, line) == IF Len(m.groups) > 1 THEN m.groups[2] ELSE line

InitSegmenter ==
    /\ lines \in Pages
    /\ source_url \in Urls
    /\ i = 1
    /\ current_review = ""
    /\ current_rating = None
    /\ reviews = <<>>
    /\ pc = "loop"
    /\ arg = ""
    /\ ret = None
    /\ IdlePipeline

InLoop == pc = "loop" /\ i <= Len(lines)

\* lines 129-142 with "start new review" placed before "save previous review"
MarkerLine_StartBeforeSave(m, line) ==
    /\ reviews' = Saved(reviews, NewReview(m, line), NewRating(m, line), source_url)
    /\ current_rating' = NewRating(m, line)
    /\ current_review' = NewReview(m, line)

\* lines 129-142 with a buffer that is kept when it was not saved
MarkerLine_KeepsUnsaved(m, line) ==
    /\ reviews' = Saved(reviews, current_review, current_rating, source_url)
    /\ current_rating' = NewRating(m, line)
    /\ current_review' =
          IF current_review # "" /\ ~HasReview(current_review, current_rating)
          THEN current_review \o " " \o NewReview(m, line)
          ELSE NewReview(m, line)

\* lines 129-142: a line with the rating match m
MarkerLine(m, line) ==
    /\ reviews' = Saved(reviews, current_review, current_rating, source_url)
    /\ current_rating' = NewRating(m, line)
    /\ current_review' = NewReview(m, line)

\* lines 144-150 with the pending review saved at every line
ProseLine_Saves(line) ==
    /\ reviews' = Saved(reviews, current_review, current_rating, source_url)
    /\ current_review' = line
    /\ UNCHANGED current_rating

\* lines 144-150: a line without a rating match
ProseLine(line) ==
    /\ current_review' =
          IF current_review # "" THEN current_review \o " " \o line
          ELSE IF _is_likely_review(line) THEN line
          ELSE current_review
    /\ UNCHANGED <<current_rating, reviews>>

\* lines 116-150: one iteration of the loop over the lines
ProcessLine ==
    /\ InLoop
    /\ LET line == Strip(lines[i])
           m    == rating_match(line)
       IN  IF Skipped(line) THEN UNCHANGED <<current_review, current_rating, reviews>>
           ELSE IF m.found THEN MarkerLine(m, line)
           ELSE ProseLine(line)
    /\ i' = i + 1
    /\ UNCHANGED <<lines, source_url, pc, arg, ret, dedup, analysis, store, app>>

\* lines 152-162: the last review and return
Return ==
    /\ pc = "loop"
    /\ i > Len(lines)
    /\ reviews' = Saved(reviews, current_review, current_rating, source_url)
    /\ pc' = "done"
    /\ UNCHANGED <<lines, source_url, i, current_review, current_rating, arg, ret>>
    /\ UNCHANGED <<dedup, analysis, store, app>>

(***************************************************************************)
(* Calls of the pure functions on their own                                *)
(***************************************************************************)
InitCall(f, args) ==
    /\ IdleSegmenter
    /\ pc = f
    /\ arg \in args
    /\ ret = None
    /\ IdlePipeline

InitNormalize == InitCall("normalize", Tokens)

InitClassify == InitCall("classify", Texts)

NormalizeRating ==
    /\ pc = "normalize"
    /\ ret' = Some(_normalize_rating(arg))
    /\ pc' = "normalized"
    /\ UNCHANGED <<segmenter, arg, dedup, analysis, store, app>>

IsLikelyReview ==
    /\ pc = "classify"
    /\ ret' = Some(_is_likely_review(arg))
    /\ pc' = "classified"
    /\ UNCHANGED <<segmenter, arg, dedup, analysis, store, app>>

Init == InitSegmenter \/ InitNormalize \/ InitClassify

Next == ProcessLine \/ Return \/ NormalizeRating \/ IsLikelyReview

Spec == Init /\ [][Next]_vars

(***************************************************************************)
(* get_product_reviews, lines 279-292: the deduplication                   *)
(***************************************************************************)
\* dict.get(key, default)
Get(dict, key, default) == IF key \in DOMAIN dict THEN dict[key] ELSE default

MIN_REVIEW_LENGTH == 20

KEY_LENGTH == 100

\* review_text[:100] without .lower()
text_key_NoLower(review_text) == Slice(review_text, 1, KEY_LENGTH)

\* review_text[:100].lower()
text_key(review_text) == Lower(Slice(review_text, 1, KEY_LENGTH))

\* if review_text and len(review_text) > 20
LongEnough(review_text) == review_text # "" /\ Len(review_text) > MIN_REVIEW_LENGTH

\* a loop that starts at the second record
FirstReview_Second == 1 + 1

\* for review in all_reviews: the loop starts at the first record
FirstReview == 1


\* two texts with the same 100 first characters up to case, different after
TextA1 ==
    "Great Item ab ab ab ab ab ab ab ab ab ab ab ab ab ab ab ab ab ab ab ab ab ab ab ab ab ab ab ab ab ab first ending"

TextA2 ==
    "great item ab ab ab ab ab ab ab ab ab ab ab ab ab ab ab ab ab ab ab ab ab ab ab ab ab ab ab ab ab ab second ending"

\* two texts with different openings and the same 50 last characters
TextB1 == "Nice same tail same tail same tail same tail same tail "

TextB2 == "Fine same tail same tail same tail same tail same tail "

\* texts of 19, 20 and 21 characters
Text19 == "nineteen characters"

Text20 == "twenty characters ok"

Text21 == "twenty-one characters"

OtherUrl == "https://blog.example/reviews"

PageUrl == "https://shop.example/p/reviews"

\* records as the segmenter builds them
DedupPool ==
    { ReviewRecord(c[1], Some(c[2]), c[3]) :
        c \in { <<TextA1, "5", PageUrl>>,
                <<TextA2, "4", OtherUrl>>,
                <<TextB1, "3", PageUrl>>,
                <<TextB2, "90", PageUrl>>,
                <<Text19, "2", PageUrl>>,
                <<Text20, "2", PageUrl>>,
                <<Text21, "x", PageUrl>>,
                <<Text21, "1", OtherUrl>>,
                <<"   ", "5", PageUrl>> } }

MaxRecords == 3

MaxPasses == 2

RecordLists == UNION {[1..n -> DedupPool] : n \in 0..MaxRecords}

\* the state at line 279, all_reviews being the records of the pages
InitFetch(lists) ==
    /\ IdleSegmenter
    /\ pc = "dedup"
    /\ arg = ""
    /\ ret = None
    /\ all_reviews \in lists
    /\ unique_reviews = <<>>
    /\ seen_texts = {}
    /\ next_review = FirstReview
    /\ passes = 1
    /\ product_reviews = <<>>
    /\ next_analyzed = 1
    /\ analysis_result = None
    /\ responses = <<>>
    /\ message = ""
    /\ products = <<>>
    /\ review_rows = <<>>
    /\ analysis_rows = <<>>
    /\ product_id = 0
    /\ added_count = 0
    /\ calls = 0

InitDedup == InitFetch(RecordLists)

\* lines 283-290: one iteration of the loop over all_reviews
DedupStep ==
    /\ pc = "dedup"
    /\ next_review <= Len(all_reviews)
    /\ LET review      == all_reviews[next_review]
           review_text == Strip(Get(review, "review_text", ""))
       IN  IF LongEnough(review_text) /\ text_key(review_text) \notin seen_texts
           THEN /\ seen_texts' = seen_texts \cup {text_key(review_text)}
                /\ unique_reviews' = Append(unique_reviews, review)
           ELSE UNCHANGED <<seen_texts, unique_reviews>>
    /\ next_review' = next_review + 1
    /\ UNCHANGED <<all_reviews, passes, segmenter, pc, arg, ret, analysis, store, app>>

\* line 292 and line 217 of app.py: the caller's reviews is the list
\* unique_reviews
DedupReturn ==
    /\ pc = "dedup"
    /\ next_review > Len(all_reviews)
    /\ product_reviews' = unique_reviews
    /\ pc' = "fetched"
    /\ UNCHANGED <<dedup, segmenter, arg, ret, next_analyzed, analysis_result, responses>>
    /\ UNCHANGED <<store, app>>

\* lines 279-282 run on the list the deduplication returned
DedupAgain ==
    /\ pc = "fetched"
    /\ passes < MaxPasses
    /\ all_reviews' = product_reviews
    /\ unique_reviews' = <<>>
    /\ seen_texts' = {}
    /\ next_review' = FirstReview
    /\ passes' = passes + 1
    /\ pc' = "dedup"
    /\ UNCHANGED <<segmenter, arg, ret, analysis, store, app>>

NextDedup == DedupStep \/ DedupReturn \/ DedupAgain

SpecDedup == InitDedup /\ [][NextDedup]_vars

(***************************************************************************)
(* ReviewAnalyzer (src/review_analyzer.py).  A chat completion either      *)
(* raises (the request fails or its content is not JSON) or returns a JSON *)
(* object, a dict with any of its keys missing.  A dict is a function from *)
(* its keys; the empty dict is the empty function <<>>.                    *)
(***************************************************************************)
Raised == [ok |-> FALSE, json |-> <<>>]

Returned(json) == [ok |-> TRUE, json |-> json]

Half == [n |-> 1, d |-> 2]

Zero == [n |-> 0, d |-> 1]

\* what client.chat.completions.create does at line 62
SentimentOutcomes ==
    { Raised,
      Returned([sentiment |-> "positive", score |-> [n |-> 9, d |-> 10]]),
      Returned([sentiment |-> "negative"]),
      Returned([score |-> Half]),
      Returned([sentiment |-> "mixed", score |-> Half]) }

\* what client.chat.completions.create does at line 99
InsightOutcomes ==
    { Raised,
      Returned([key_insights |-> <<"sturdy">>, pros |-> <<"price">>]) }

\* an update that replaces the dictionary
Update_Replace(dict, other) == other

\* dict.update(other)
Update(dict, other) == other @@ dict

\* lines 85-88 with the label positive
FailedSentiment_Positive == [sentiment_label |-> "positive", sentiment_score |-> Half]

\* lines 85-88: the result of a failed sentiment call
FailedSentiment == [sentiment_label |-> "neutral", sentiment_score |-> Half]

\* lines 59-88
_analyze_sentiment(outcome) ==
    IF outcome.ok
    THEN [sentiment_label |-> Get(outcome.json, "sentiment", "neutral"),
          sentiment_score |-> Get(outcome.json, "score", Half)]
    ELSE FailedSentiment

\* lines 131-136: the result of a failed insight call
FailedInsights ==
    [key_insights    |-> <<"Unable to generate insights automatically">>,
     pros            |-> <<>>,
     cons            |-> <<>>,
     recommendations |-> <<>>]

\* lines 90-136 (the prompt, built from the first 50 reviews, reaches only
\* the external service)
_generate_insights(outcome) == IF outcome.ok THEN outcome.json ELSE FailedInsights

\* round(num / den * scale) to the nearest integer, a tie to the even one:
\* round(x, 1) is RoundDiv(.., 1000) tenths of a percent for x = num/den*100
RoundDiv(num, den, scale) ==
    LET q == (scale * num) \div den
        r == (scale * num) % den
    IN  IF 2 * r > den \/ (2 * r = den /\ q % 2 = 1) THEN q + 1 ELSE q

\* round((count / total) * 100, 1)
Percentage(count, total) == [n |-> RoundDiv(count, total, 1000), d |-> 10]

\* lines 138-148
_calculate_sentiment_distribution(rs) ==
    LET total    == Len(rs)
        count(l) == Cardinality({k \in 1..Len(rs) : Get(rs[k], "sentiment_label", "neutral") = l})
        share(l) == IF total > 0 THEN Percentage(count(l), total) ELSE Zero
    IN  [positive |-> share("positive"),
         negative |-> share("negative"),
         neutral  |-> share("neutral")]

\* int(r) rounding up
RatingBucket_Up(r) == (r.n + r.d - 1) \div r.d

\* int(r) of line 155, r being positive
RatingBucket(r) == r.n \div r.d

\* lines 150-165
_calculate_rating_summary(ratings) ==
    IF ratings = <<>> THEN <<>>
    ELSE LET total_ratings == Len(ratings)
             count(b) ==
                 Cardinality({k \in 1..Len(ratings) :
                                 ratings[k].n # 0 /\ RatingBucket(ratings[k]) = b})
         IN  [5_star |-> Percentage(count(5), total_ratings),
              4_star |-> Percentage(count(4), total_ratings),
              3_star |-> Percentage(count(3), total_ratings),
              2_star |-> Percentage(count(2), total_ratings),
              1_star |-> Percentage(count(1), total_ratings),
              total_ratings |-> total_ratings]

RECURSIVE Gcd(_, _)
Gcd(x, y) == IF y = 0 THEN x ELSE Gcd(y, x % y)

\* x + y on floats, in lowest terms
RatAdd(x, y) ==
    LET n == x.n * y.d + y.n * x.d
        g == Gcd(n, x.d * y.d)
    IN  [n |-> n \div g, d |-> (x.d * y.d) \div g]

RECURSIVE Sum(_)
\* sum(ratings)
Sum(ratings) == IF ratings = <<>> THEN Zero ELSE RatAdd(Head(ratings), Sum(Tail(ratings)))

RECURSIVE Ratings(_)
\* line 39: [r.get('rating') for r in analyzed_reviews if r.get('rating') is not None]
Ratings(rs) ==
    IF rs = <<>> THEN <<>>
    ELSE IF Get(Head(rs), "rating", None) = None THEN Ratings(Tail(rs))
    ELSE <<Get(Head(rs), "rating", None)[1]>> \o Ratings(Tail(rs))

\* line 40 and round(average_rating, 2) of line 50
AverageRating(ratings) ==
    IF ratings = <<>> THEN [n |-> 0, d |-> 100]
    ELSE [n |-> RoundDiv(Sum(ratings).n, Sum(ratings).d * Len(ratings), 100), d |-> 100]

\* lines 19-28
EmptyResult ==
    [total_reviews          |-> 0,
     average_rating         |-> Zero,
     sentiment_distribution |-> [positive |-> Zero, negative |-> Zero, neutral |-> Zero],
     key_insights           |-> <<>>,
     pros                   |-> <<>>,
     cons                   |-> <<>>,
     rating_summary         |-> <<>>,
     recommendations        |-> <<>>]

\* lines 37-57: the dict returned for the analysed reviews rs
AnalysisResult(rs, insights) ==
    [total_reviews          |-> Len(rs),
     average_rating         |-> AverageRating(Ratings(rs)),
     sentiment_distribution |-> _calculate_sentiment_distribution(rs),
     key_insights           |-> Get(insights, "key_insights", <<>>),
     pros                   |-> Get(insights, "pros", <<>>),
     cons                   |-> Get(insights, "cons", <<>>),
     rating_summary         |-> _calculate_rating_summary(Ratings(rs)),
     recommendations        |-> Get(insights, "recommendations", <<>>)]

\* a test of line 18 that never holds
NoReviews_Never(rs) == FALSE

\* not reviews
NoReviews(rs) == rs = <<>>

\* lines 16-31: the empty list returns at once, another one enters the loop
AnalyzeStart ==
    /\ pc = "analyze"
    /\ IF NoReviews(product_reviews)
       THEN /\ analysis_result' = Some(EmptyResult)
            /\ pc' = "analyzed"
            /\ UNCHANGED next_analyzed
       ELSE /\ next_analyzed' = 1
            /\ pc' = "sentiment"
            /\ UNCHANGED analysis_result
    /\ UNCHANGED <<product_reviews, responses, segmenter, arg, ret, dedup, store, app>>

\* lines 32-35: one iteration of the loop; review.update changes the dict
\* of the caller's list
AnalyzeSentiment ==
    /\ pc = "sentiment"
    /\ next_analyzed <= Len(product_reviews)
    /\ \E outcome \in SentimentOutcomes :
          /\ responses' = Append(responses, outcome)
          /\ product_reviews' =
                [product_reviews EXCEPT
                    ![next_analyzed] = Update(@, _analyze_sentiment(outcome))]
    /\ next_analyzed' = next_analyzed + 1
    /\ UNCHANGED <<analysis_result, pc, segmenter, arg, ret, dedup, store, app>>

\* lines 37-57: the metrics, the insights and the result
Aggregate ==
    /\ pc = "sentiment"
    /\ next_analyzed > Len(product_reviews)
    /\ \E outcome \in InsightOutcomes :
          /\ responses' = Append(responses, outcome)
          /\ analysis_result' =
                Some(AnalysisResult(product_reviews, _generate_insights(outcome)))
    /\ pc' = "analyzed"
    /\ UNCHANGED <<product_reviews, next_analyzed, segmenter, arg, ret, dedup, store, app>>

AnalyzerText == "Good item, works as described"

\* records as the segmenter builds them: without a rating, and rated 2.5,
\* 3.0, 4.5 and 5.0
AnalyzerPool ==
    { ReviewRecord(AnalyzerText, Some(token), PageUrl) :
        token \in {"x", "50", "3", "90", "5"} }

MaxAnalyzed == 3

AnalyzerLists == UNION {[1..n -> AnalyzerPool] : n \in 0..MaxAnalyzed}

\* a call analyze_reviews(reviews)
InitAnalyzer ==
    /\ IdleSegmenter
    /\ pc = "analyze"
    /\ arg = ""
    /\ ret = None
    /\ all_reviews = <<>>
    /\ unique_reviews = <<>>
    /\ seen_texts = {}
    /\ next_review = 1
    /\ passes = 0
    /\ product_reviews \in AnalyzerLists
    /\ next_analyzed = 1
    /\ analysis_result = None
    /\ responses = <<>>
    /\ message = ""
    /\ products = <<>>
    /\ review_rows = <<>>
    /\ analysis_rows = <<>>
    /\ product_id = 0
    /\ added_count = 0
    /\ calls = 0

NextAnalyzer == AnalyzeStart \/ AnalyzeSentiment \/ Aggregate

SpecAnalyzer == InitAnalyzer /\ [][NextAnalyzer]_vars

(***************************************************************************)
(* ReviewDatabase (src/database.py).  A table is the sequence of its rows  *)
(* in insertion order; NULL is None, and a column that may be NULL holds   *)
(* None or Some(value).  review_date, which the records of this model do   *)
(* not carry, and the created_at columns are left out.                     *)
(***************************************************************************)
\* a = b in SQL: true only of two values that are not NULL
SqlEq(x, y) == x # None /\ y # None /\ x = y

\* review.get(key): None when the key is missing
GetOrNone(dict, key) == IF key \in DOMAIN dict THEN Some(dict[key]) ELSE None

\* the parameters of the SELECT of lines 108-111: review.get('reviewer_name',
\* '') is the value of the key, None included, when the dict has the key
NameParam(review) == Get(review, "reviewer_name", Some(""))

\* the SELECT of lines 108-111 returns a row
ReviewExists(rows, pid, review) ==
    \E k \in 1..Len(rows) :
        /\ rows[k].product_id = pid
        /\ rows[k].review_text = Get(review, "review_text", "")
        /\ SqlEq(rows[k].reviewer_name, NameParam(review))

\* the row of the INSERT of lines 114-128
ReviewRow(rows, pid, review) ==
    [id              |-> Len(rows) + 1,
     product_id      |-> pid,
     review_text     |-> Get(review, "review_text", ""),
     rating          |-> Get(review, "rating", None),
     reviewer_name   |-> Get(review, "reviewer_name", None),
     source_url      |-> GetOrNone(review, "source_url"),
     sentiment_score |-> GetOrNone(review, "sentiment_score"),
     sentiment_label |-> GetOrNone(review, "sentiment_label")]

RECURSIVE AddedRows(_, _, _)
\* lines 106-129: the reviews table after the loop over rs
AddedRows(rows, pid, rs) ==
    IF rs = <<>> THEN rows
    ELSE AddedRows(IF ReviewExists(rows, pid, Head(rs)) THEN rows
                   ELSE Append(rows, ReviewRow(rows, pid, Head(rs))),
                   pid, Tail(rs))

\* lines 100-132: add_reviews(pid, rs) and the count it returns
add_reviews(pid, rs) ==
    /\ review_rows' = AddedRows(review_rows, pid, rs)
    /\ added_count' = Len(AddedRows(review_rows, pid, rs)) - Len(review_rows)

\* the rows of lines 73-74
ProductsOf(url) == {k \in 1..Len(products) : products[k].url = url}

\* lines 66-98: get_or_create_product(url, title) and the id it returns;
\* brand, price and image_url are never passed
get_or_create_product(url, title) ==
    IF ProductsOf(url) # {}
    THEN LET k == CHOOSE k \in ProductsOf(url) : TRUE
         IN  /\ product_id' = products[k].id
             /\ products' =
                   IF title # None /\ title[1] # ""
                   THEN [products EXCEPT ![k].title = title]
                   ELSE products
    ELSE /\ product_id' = Len(products) + 1
         /\ products' = Append(products, [id |-> Len(products) + 1, url |-> url, title |-> title])

\* json.dumps(value): the text of a value
Dumps(value) == [json |-> value]

\* the row of the INSERT of lines 143-157
AnalysisRow(pid, result) ==
    [product_id             |-> pid,
     sentiment_distribution |-> Dumps(Get(result, "sentiment_distribution", <<>>)),
     key_insights           |-> Dumps(Get(result, "key_insights", <<>>)),
     pros                   |-> Dumps(Get(result, "pros", <<>>)),
     cons                   |-> Dumps(Get(result, "cons", <<>>)),
     rating_summary         |-> Dumps(Get(result, "rating_summary", <<>>)),
     total_reviews          |-> Get(result, "total_reviews", 0),
     average_rating         |-> Get(result, "average_rating", Zero)]

\* lines 134-159: save_analysis(pid, result)
save_analysis(pid, result) ==
    analysis_rows' =
        Append(SelectSeq(analysis_rows, LAMBDA row : row.product_id # pid),
               AnalysisRow(pid, result))

\* with sqlite3.connect(...) as conn: the statements of a block that raised
\* are rolled back
Rollback(committed, pending) == committed

\* lines 136-159 when a statement raises: at "delete" the DELETE of line 140
\* raised, at "insert" the DELETE was executed and the INSERT of lines
\* 143-157 or one of its json.dumps raised
save_analysis_raises(pid, at) ==
    analysis_rows' =
        Rollback(analysis_rows,
                 IF at = "delete" THEN analysis_rows
                 ELSE SelectSeq(analysis_rows, LAMBDA row : row.product_id # pid))

\* json.loads(text)
Loads(text) == text.json

\* the rows of the SELECT of lines 190-197, the newest last
AnalysisOf(pid) == SelectSeq(analysis_rows, LAMBDA row : row.product_id = pid)

\* lines 186-210: get_analysis(pid), the dict of the newest row
get_analysis(pid) ==
    IF AnalysisOf(pid) = <<>> THEN None
    ELSE LET result == AnalysisOf(pid)[Len(AnalysisOf(pid))]
         IN  Some([sentiment_distribution |-> Loads(result.sentiment_distribution),
                   key_insights           |-> Loads(result.key_insights),
                   pros                   |-> Loads(result.pros),
                   cons                   |-> Loads(result.cons),
                   rating_summary         |-> Loads(result.rating_summary),
                   total_reviews          |-> result.total_reviews,
                   average_rating         |-> result.average_rating])

(***************************************************************************)
(* main (src/app.py), lines 204-255: a fresh analysis of one product URL,  *)
(* from the records of its pages to the three tables                       *)
(***************************************************************************)
NO_REVIEWS == "No reviews found for this product. Please try a different URL."

ProductUrl == PageUrl

\* extract_product_name(ProductUrl)
ProductName == "Reviews"

\* a test of line 219 that never holds
NoReviewsFound_Never(rs) == FALSE

\* if not reviews
NoReviewsFound(rs) == rs = <<>>

TextNamed == "Great value, works as promised - Ann Lee"

MainPool ==
    { ReviewRecord(c[1], Some(c[2]), c[3]) :
        c \in { <<TextA1, "5", PageUrl>>,
                <<TextA2, "4", OtherUrl>>,
                <<Text20, "2", PageUrl>>,
                <<TextNamed, "90", PageUrl>> } }

MaxFound == 2

MainLists == UNION {[1..n -> MainPool] : n \in 0..MaxFound}

InitMain == InitFetch(MainLists)

\* lines 217-231: without reviews main reports it and returns, otherwise it
\* calls analyze_reviews
MainFetched ==
    /\ pc = "fetched"
    /\ IF NoReviewsFound(product_reviews)
       THEN message' = NO_REVIEWS /\ pc' = "returned"
       ELSE pc' = "analyze" /\ UNCHANGED message
    /\ UNCHANGED <<segmenter, arg, ret, dedup, analysis, store>>
    /\ UNCHANGED <<product_id, added_count, calls>>

\* lines 237-239
MainGetOrCreateProduct ==
    /\ pc = "analyzed"
    /\ get_or_create_product(ProductUrl, Some(ProductName))
    /\ pc' = "product"
    /\ UNCHANGED <<segmenter, arg, ret, dedup, analysis, review_rows, analysis_rows>>
    /\ UNCHANGED <<message, added_count, calls>>

\* line 240
MainAddReviews ==
    /\ pc = "product"
    /\ add_reviews(product_id, product_reviews)
    /\ pc' = "added"
    /\ UNCHANGED <<segmenter, arg, ret, dedup, analysis, products, analysis_rows>>
    /\ UNCHANGED <<message, product_id, calls>>

\* lines 241-251
MainSaveAnalysis ==
    /\ pc = "added"
    /\ save_analysis(product_id, analysis_result[1])
    /\ pc' = "complete"
    /\ UNCHANGED <<segmenter, arg, ret, dedup, analysis, products, review_rows, app>>

NextMain ==
    \/ DedupStep \/ DedupReturn \/ MainFetched
    \/ AnalyzeStart \/ AnalyzeSentiment \/ Aggregate
    \/ MainGetOrCreateProduct \/ MainAddReviews \/ MainSaveAnalysis

SpecMain == InitMain /\ [][NextMain]_vars

(***************************************************************************)
(* Calls on the database in any order                                      *)
(***************************************************************************)
MaxCalls == 3

StoreUrls == {PageUrl, OtherUrl}

StoreTitles == {None, Some(ProductName)}

\* a record with a reviewer name
Named == ReviewRecord(TextNamed, Some("90"), PageUrl)

\* a record without one, before and after the sentiment step
Unnamed == ReviewRecord(AnalyzerText, Some("5"), PageUrl)

UnnamedAnalysed == Update(Unnamed, _analyze_sentiment(Raised))

StoreLists == {<<Named>>, <<Unnamed>>, <<Named, UnnamedAnalysed>>, <<UnnamedAnalysed>>}

NoCall == [op |-> "none"]

InitStore ==
    /\ IdleSegmenter
    /\ pc = "store"
    /\ arg = NoCall
    /\ ret = None
    /\ IdlePipeline

\* a call get_or_create_product(url, title=title)
CallGetOrCreateProduct ==
    /\ pc = "store"
    /\ calls < MaxCalls
    /\ \E url \in StoreUrls, title \in StoreTitles :
          /\ get_or_create_product(url, title)
          /\ arg' = [op |-> "get_or_create_product", url |-> url, title |-> title]
    /\ calls' = calls + 1
    /\ UNCHANGED <<segmenter, pc, ret, dedup, analysis, review_rows, analysis_rows>>
    /\ UNCHANGED <<message, added_count>>

\* a call add_reviews(pid, rs) for a product of the table
CallAddReviews ==
    /\ pc = "store"
    /\ calls < MaxCalls
    /\ \E k \in 1..Len(products), rs \in StoreLists :
          /\ add_reviews(products[k].id, rs)
          /\ arg' = [op |-> "add_reviews", product_id |-> products[k].id, reviews |-> rs]
    /\ calls' = calls + 1
    /\ UNCHANGED <<segmenter, pc, ret, dedup, analysis, products, analysis_rows>>
    /\ UNCHANGED <<message, product_id>>

\* what the insight call returned for the analyses that are saved
StoreInsights ==
    { [key_insights |-> <<"sturdy">>, recommendations |-> <<"buy the large one">>],
      FailedInsights }

StoreResults == {AnalysisResult(<<UnnamedAnalysed>>, insights) : insights \in StoreInsights}

SaveOutcomes == {"commit", "delete", "insert"}

\* a call save_analysis(pid, result) for a product of the table, which
\* commits or raises at one of its statements
CallSaveAnalysis ==
    /\ pc = "store"
    /\ calls < MaxCalls
    /\ \E k \in 1..Len(products), result \in StoreResults, at \in SaveOutcomes :
          /\ IF at = "commit" THEN save_analysis(products[k].id, result)
             ELSE save_analysis_raises(products[k].id, at)
          /\ arg' = [op |-> "save_analysis", product_id |-> products[k].id,
                     analysis |-> result, outcome |-> at]
    /\ calls' = calls + 1
    /\ UNCHANGED <<segmenter, pc, ret, dedup, analysis, products, review_rows>>
    /\ UNCHANGED <<message, product_id, added_count>>

NextStore == CallGetOrCreateProduct \/ CallAddReviews \/ CallSaveAnalysis

SpecStore == InitStore /\ [][NextStore]_vars

(***************************************************************************)
(* The terms of the properties                                             *)
(***************************************************************************)
\* line j of the page after trimming
Seen(j) == Strip(lines[j])

\* line j is neither empty nor shorter than 10 characters after trimming
Kept(j) == Len(Seen(j)) >= 10

\* the first rule family, in the order "N stars", "Rating: N", "N/5", star
\* glyphs, that matches the line; 0 if none does
Family(line) ==
    LET fams == {k \in 1..4 : \E p \in 1..Len(line) : MatchesAt(k, line, p)}
    IN  IF fams = {} THEN 0 ELSE Min(fams)

\* line j is a non-skipped line on which the Pattern Matcher finds a marker
IsMarker(j) == Kept(j) /\ Family(Seen(j)) # 0

\* the loop is about to process line i
AtLine == pc = "loop" /\ i <= Len(lines)

\* a rating token is known
TokenKnown == current_rating # None /\ current_rating[1] # ""

\* the last marker line before line k (there is one)
PrevMarker(k) ==
    CHOOSE j \in 1..(k - 1) : IsMarker(j) /\ \A h \in (j + 1)..(k - 1) : ~IsMarker(h)

RECURSIVE Accumulated(_, _)
\* the buffer opened by the marker line j, after the lines up to k
Accumulated(j, k) ==
    IF k = j THEN NewReview(rating_match(Seen(j)), Seen(j))
    ELSE LET before == Accumulated(j, k - 1)
         IN  IF ~Kept(k) THEN before
             ELSE IF before # "" THEN before \o " " \o Seen(k)
             ELSE IF _is_likely_review(Seen(k)) THEN Seen(k)
             ELSE ""

RatEq(a, b) == a.n * b.d = b.n * a.d

(***************************************************************************)
(* C1.  The segmenter run on the page "5 stars", "Great product, love it,  *)
(* would recommend", "2 stars", "Terrible, broke immediately, waste of     *)
(* money" returns exactly 2 records, in this order: rating 5.0 with a text *)
(* containing the "Great product" line, then rating 2.0 with a text        *)
(* containing the "Terrible" line.                                         *)
(***************************************************************************)
C1_ExampleTwoRecords ==
    (pc = "done" /\ lines = ExamplePage) =>
        /\ Len(reviews) = 2
        /\ reviews[1].rating # None /\ RatEq(reviews[1].rating[1], [n |-> 5, d |-> 1])
        /\ Contains(reviews[1].review_text, ExamplePage[2])
        /\ reviews[2].rating # None /\ RatEq(reviews[2].rating[1], [n |-> 2, d |-> 1])
        /\ Contains(reviews[2].review_text, ExamplePage[4])

\* C1 as the code has it: on that page the segmenter returns no record; both
\* marker lines are shorter than 10 characters and are skipped, and neither
\* prose line passes the classifier, so the run ends with an empty buffer and
\* no rating token.
C1_ExampleNoRecord ==
    (pc = "done" /\ lines = ExamplePage) =>
        reviews = <<>> /\ current_review = "" /\ current_rating = None

C1_ExampleDone == pc = "done" /\ lines = ExamplePage

(***************************************************************************)
(* C2.  A non-skipped marker line processed while the buffer is non-empty  *)
(* and a rating token is known appends exactly one record to the records   *)
(* emitted so far: its review_text is the trimmed buffer accumulated since *)
(* the previous marker, its rating the normalization of the previous       *)
(* marker's token, its source_url the page's URL; the buffer and the token *)
(* are then replaced by the new marker's captures.                         *)
(***************************************************************************)
C2_MarkerEmitsPrevious ==
    [][ (AtLine /\ IsMarker(i) /\ current_review # "" /\ TokenKnown) =>
          /\ Len(reviews') = Len(reviews) + 1
          /\ SubSeq(reviews', 1, Len(reviews)) = reviews
          /\ current_review = Accumulated(PrevMarker(i), i - 1)
          /\ current_rating = Some(rating_match(Seen(PrevMarker(i))).groups[1])
          /\ reviews'[Len(reviews')].review_text =
                Strip(Accumulated(PrevMarker(i), i - 1))
          /\ reviews'[Len(reviews')].rating =
                _normalize_rating(rating_match(Seen(PrevMarker(i))).groups[1])
          /\ reviews'[Len(reviews')].source_url = source_url
          /\ current_rating' = Some(rating_match(Seen(i)).groups[1])
          /\ current_review' = Accumulated(i, i)
      ]_vars

\* a record was emitted by a marker line that followed a marker line and a
\* prose line appended to its buffer
C2_EmittedAtMarker ==
    /\ pc = "loop" /\ i = 4 /\ Len(reviews) = 1
    /\ IsMarker(1) /\ Kept(2) /\ ~IsMarker(2) /\ IsMarker(3)
    /\ reviews[1].review_text = Strip(Accumulated(1, 2))

(***************************************************************************)
(* C3.  At end of input one final record is emitted if and only if the     *)
(* buffer is non-empty and a rating token is known; a page without any     *)
(* marker line returns no record.                                          *)
(***************************************************************************)
C3_FinalRecord ==
    [][ (pc = "loop" /\ i > Len(lines)) =>
          /\ (current_review # "" /\ TokenKnown) =>
                /\ Len(reviews') = Len(reviews) + 1
                /\ SubSeq(reviews', 1, Len(reviews)) = reviews
                /\ reviews'[Len(reviews')].review_text = Strip(current_review)
                /\ reviews'[Len(reviews')].rating =
                      _normalize_rating(current_rating[1])
                /\ reviews'[Len(reviews')].source_url = source_url
          /\ ~(current_review # "" /\ TokenKnown) => reviews' = reviews
          /\ (\A j \in 1..Len(lines) : ~IsMarker(j)) => reviews' = <<>>
      ]_vars

\* the page has one marker line and its record was emitted at the end
C3_EmittedAtEnd ==
    /\ pc = "done" /\ Len(reviews) = 1
    /\ Cardinality({j \in 1..Len(lines) : IsMarker(j)}) = 1

(***************************************************************************)
(* C4.  A marker-less line that seeds a candidate through the classifier   *)
(* (buffer empty, classifier true) leaves the candidate without a rating   *)
(* token.                                                                  *)
(***************************************************************************)
C4_SeedHasNoToken ==
    [][ (AtLine /\ Kept(i) /\ Family(Seen(i)) = 0 /\ current_review = ""
         /\ _is_likely_review(Seen(i))) =>
          (current_review' = Seen(i) /\ current_rating' = None)
      ]_vars

(***************************************************************************)
(* C5.  Every record of the returned list has a review_text that is not    *)
(* empty after trimming.                                                   *)
(***************************************************************************)
C5_TextNeverBlank ==
    \A k \in 1..Len(reviews) : Strip(reviews[k].review_text) # ""

(***************************************************************************)
(* C6.  For every rating token the normalizer returns either no rating or  *)
(* a rating in the closed interval [1, 5], and so does every record the    *)
(* segmenter emits.                                                        *)
(***************************************************************************)
InRange(rating) == rating = None \/ (rating[1].d <= rating[1].n /\ rating[1].n <= 5 * rating[1].d)

C6_RatingInRange ==
    /\ pc = "normalized" => InRange(ret[1])
    /\ \A k \in 1..Len(reviews) : InRange(reviews[k].rating)

\* a token whose value leaves [1, 5] after the scale conversion: 6 / 20
C6_Clamped == pc = "normalized" /\ arg = "6" /\ ret[1] # None /\ ret[1][1].n = ret[1][1].d

(***************************************************************************)
(* C7.  The normalizer maps the first numeric value v of the token to      *)
(* v / 20 when v > 5, to v * 5 when v <= 1 and to v otherwise, and clamps  *)
(* the result to [1, 5]: 90 gives 4.5, 0.8 gives 4.0, 3 gives 3.0, and a   *)
(* token without any numeric value gives no rating.                        *)
(***************************************************************************)
Scaled(v) ==
    IF v.n > 5 * v.d THEN [n |-> v.n, d |-> v.d * 20]
    ELSE IF v.n <= v.d THEN [n |-> v.n * 5, d |-> v.d]
    ELSE v

Clamped(v) ==
    IF v.n < v.d THEN [n |-> 1, d |-> 1]
    ELSE IF v.n > 5 * v.d THEN [n |-> 5, d |-> 1]
    ELSE v

HasDigit(token) == \E p \in 1..Len(token) : IsDigit(Ch(token, p))

C7_NormalizerMap ==
    pc = "normalized" =>
        /\ ~HasDigit(arg) => ret[1] = None
        /\ HasDigit(arg) =>
              /\ ret[1] # None
              /\ RatEq(ret[1][1], Clamped(Scaled(ToFloat(FirstNumeral(arg)[1]))))
        /\ arg = "90"  => ret[1] # None /\ RatEq(ret[1][1], [n |-> 9, d |-> 2])
        /\ arg = "0.8" => ret[1] # None /\ RatEq(ret[1][1], [n |-> 4, d |-> 1])
        /\ arg = "3"   => ret[1] # None /\ RatEq(ret[1][1], [n |-> 3, d |-> 1])
        /\ arg = "x"   => ret[1] = None

\* the token 1 lies on the boundary v <= 1 and is multiplied by 5
C7_BoundaryOne == pc = "normalized" /\ arg = "1" /\ ret[1] # None /\ ret[1][1].n = 5 * ret[1][1].d

(***************************************************************************)
(* C8.  A line that is empty or shorter than 10 characters after trimming  *)
(* leaves the buffer, the rating token and the emitted records unchanged,  *)
(* whether or not it contains a rating marker.                             *)
(***************************************************************************)
C8_ShortLineNoEffect ==
    [][ (AtLine /\ Len(Strip(lines[i])) < 10) =>
          (current_review' = current_review /\ current_rating' = current_rating
           /\ reviews' = reviews)
      ]_vars

\* a short line with a rating marker was passed over while a candidate with
\* a known token was being accumulated
C8_ShortMarkerSkipped ==
    /\ pc = "loop" /\ i = 3
    /\ Kept(1) /\ ~Kept(2) /\ Family(Seen(2)) # 0
    /\ current_review # "" /\ TokenKnown

(***************************************************************************)
(* C9.  On a non-skipped marker line the match used is that of the first   *)
(* rule family that matches, and for each of the four families the new     *)
(* candidate takes the family's rating capture as its rating token and the *)
(* text trailing the marker as its buffer.                                 *)
(***************************************************************************)
\* the rating marker of the star-glyph family in the line: its run of glyphs
GlyphMarker(line) ==
    LET p == Min({q \in 1..Len(line) : Ch(line, q) = "*"})
    IN  Slice(line, p, GlyphRunEnd(line, p) - 1)

\* the rating capture of the family in the line
RatingCapture(fam, line) ==
    IF fam = 4 THEN GlyphMarker(line) ELSE re_search(fam, line).groups[1]

\* the text trailing the marker of the family in the line
TrailingText(fam, line) ==
    IF fam = 4 THEN re_search(fam, line).groups[1] ELSE re_search(fam, line).groups[2]

C9_FirstFamilyCaptures ==
    [][ (AtLine /\ IsMarker(i)) =>
          /\ current_rating' = Some(RatingCapture(Family(Seen(i)), Seen(i)))
          /\ current_review' = TrailingText(Family(Seen(i)), Seen(i))
      ]_vars

(***************************************************************************)
(* C10.  The classifier returns true if and only if (indicator_count >= 2  *)
(* and word_count >= 10) or (indicator_count >= 1 and word_count >= 20),   *)
(* indicator_count being the number of keywords occurring in the line as   *)
(* case-insensitive substrings and word_count the number of whitespace-    *)
(* delimited tokens; with an empty buffer a marker-less line with exactly  *)
(* 2 keywords starts a candidate when it has 10 words and does not when it *)
(* has 9.                                                                  *)
(***************************************************************************)
Keywords(text) ==
    {review_indicators[k] : k \in {h \in 1..Len(review_indicators) :
                                      Contains(Lower(text), review_indicators[h])}}

\* the whitespace-delimited tokens, counted by their last characters
Words(text) ==
    Cardinality({p \in 1..Len(text) : Ch(text, p) # " " /\ Ch(text, p + 1) \in {" ", ""}})

C10_ClassifierThreshold ==
    /\ pc = "classified" =>
          /\ ret[1] <=> \/ Cardinality(Keywords(arg)) >= 2 /\ Words(arg) >= 10
                        \/ Cardinality(Keywords(arg)) >= 1 /\ Words(arg) >= 20
          /\ arg = "Good item x x x x x x x x" => ret[1]
          /\ arg = "Good item x x x x x x x" => ~ret[1]
    /\ (pc = "loop" /\ i = 2 /\ Family(Seen(1)) = 0
        /\ Cardinality(Keywords(Seen(1))) = 2) =>
          /\ Words(Seen(1)) = 10 => current_review = Seen(1)
          /\ Words(Seen(1)) = 9 => current_review = ""

\* a text of exactly 2 keywords and 10 words was accepted
C10_TenWordsAccepted ==
    /\ pc = "classified" /\ ret[1]
    /\ Cardinality(Keywords(arg)) = 2 /\ Words(arg) = 10

(***************************************************************************)
(* The terms of the properties of the deduplication                        *)
(***************************************************************************)
\* the review_text of a record after trimming
TrimmedText(review) == Strip(Get(review, "review_text", ""))

\* the key of a record: the lowercase of the first 100 characters of its
\* trimmed review_text
PrefixKey(review) == Lower(Slice(TrimmedText(review), 1, 100))

\* the trimmed review_text of record j of the input has at least n characters
\* and no earlier record of at least n characters has its key
FirstOfKey(j, n) ==
    /\ Len(TrimmedText(all_reviews[j])) >= n
    /\ \A h \in 1..(j - 1) :
          Len(TrimmedText(all_reviews[h])) >= n =>
              PrefixKey(all_reviews[h]) # PrefixKey(all_reviews[j])

RECURSIVE Firsts(_, _)
\* the records among the first j of the input that are the first of their
\* key, in the order of the input
Firsts(j, n) ==
    IF j = 0 THEN <<>>
    ELSE IF FirstOfKey(j, n) THEN Append(Firsts(j - 1, n), all_reviews[j])
    ELSE Firsts(j - 1, n)

\* the deduplication has returned
Fetched == pc = "fetched"

(***************************************************************************)
(* C11.  Of the records that pass the length test (more than 20 characters *)
(* after trimming), the Deduplicator returns exactly the first record of   *)
(* each key, in the order of the input: no two returned records share a    *)
(* key, two records with the same lowercase 100-character prefix that      *)
(* differ afterwards collapse to the first one, and two records with       *)
(* different prefixes and the same 50 last characters are both returned.   *)
(***************************************************************************)
C11_FirstOfEachKey ==
    Fetched =>
        /\ unique_reviews = Firsts(Len(all_reviews), MIN_REVIEW_LENGTH + 1)
        /\ \A x, y \in 1..Len(unique_reviews) :
              x # y => PrefixKey(unique_reviews[x]) # PrefixKey(unique_reviews[y])
        /\ \A x, y \in DedupPool :
              /\ all_reviews = <<x, y>>
              /\ Len(TrimmedText(x)) > 100 /\ Len(TrimmedText(y)) > 100
              /\ TrimmedText(x) # TrimmedText(y)
              /\ PrefixKey(x) = PrefixKey(y)
              => unique_reviews = <<x>>
        /\ \A x, y \in DedupPool :
              /\ all_reviews = <<x, y>>
              /\ Len(TrimmedText(x)) > 50 /\ Len(TrimmedText(y)) > 50
              /\ PrefixKey(x) # PrefixKey(y)
              => unique_reviews = <<x, y>>

\* a run on two long texts that differ in case within the prefix and in
\* their endings has returned one record
C11_PrefixCollapsed ==
    /\ Fetched
    /\ Len(all_reviews) = 2
    /\ TrimmedText(all_reviews[1]) = TextA1
    /\ TrimmedText(all_reviews[2]) = TextA2
    /\ unique_reviews = <<all_reviews[1]>>

(***************************************************************************)
(* C12.  The Deduplicator drops a record before the key computation        *)
(* exactly when its trimmed review_text is shorter than 20 characters; a   *)
(* record of 20 or more characters is dropped only when its key was        *)
(* already seen: the records returned are the first record of each key     *)
(* among the records of at least 20 characters.                            *)
(***************************************************************************)
C12_DroppedUnderTwenty ==
    Fetched => unique_reviews = Firsts(Len(all_reviews), 20)

(***************************************************************************)
(* C13.  Deduplication is idempotent: run on the list it returned, the     *)
(* Deduplicator returns that list unchanged, the same records in the same  *)
(* order.                                                                  *)
(***************************************************************************)
C13_Idempotent ==
    (Fetched /\ passes >= 2) => unique_reviews = all_reviews

\* a second run over two or more records has returned
C13_SecondRunDone ==
    Fetched /\ passes = 2 /\ Len(unique_reviews) >= 2

(***************************************************************************)
(* The terms of the properties of the analyzer                             *)
(***************************************************************************)
\* analyze_reviews has returned
Analyzed == pc = "analyzed"

\* the dict it returned
Result == analysis_result[1]

\* a percentage in tenths of a percent
Tenths(x) == (10 * x.n) \div x.d

Abs(x) == IF x < 0 THEN 0 - x ELSE x

\* the sum of the percentages differs from 100.0 by at most 0.3
SumsTo100(percentages) == Abs(percentages - 1000) <= 3

\* the records that have a rating
Rated == {k \in 1..Len(product_reviews) : product_reviews[k].rating # None}

\* floor(rating)
Floor(r) == CHOOSE f \in 0..5 : f * r.d <= r.n /\ r.n < (f + 1) * r.d

StarKey(stars) ==
    CASE stars = 1 -> "1_star"
      [] stars = 2 -> "2_star"
      [] stars = 3 -> "3_star"
      [] stars = 4 -> "4_star"
      [] stars = 5 -> "5_star"

\* x is count / total * 100 rounded to 1 decimal
IsPercentage(x, count, total) ==
    /\ x.d = 10
    /\ 2 * Abs(x.n * total - 1000 * count) <= total

ResultKeys ==
    {"total_reviews", "average_rating", "sentiment_distribution", "key_insights",
     "pros", "cons", "rating_summary", "recommendations"}

(***************************************************************************)
(* C14.  Whenever analyze_reviews has processed at least one record, the   *)
(* positive, negative and neutral percentages of sentiment_distribution    *)
(* sum to 100.0 within 0.3, whatever label the sentiment step stored.      *)
(***************************************************************************)
C14_SentimentSumsTo100 ==
    (Analyzed /\ Len(product_reviews) >= 1) =>
        SumsTo100(Tenths(Result.sentiment_distribution.positive)
                  + Tenths(Result.sentiment_distribution.negative)
                  + Tenths(Result.sentiment_distribution.neutral))

(***************************************************************************)
(* C15.  Whenever at least one analysed record has a rating,               *)
(* rating_summary.N_star for N in 1..5 is the percentage, rounded to 1     *)
(* decimal, of the rated records with floor(rating) = N, total_ratings is  *)
(* the number of rated records, and the five percentages sum to 100.0      *)
(* within 0.3.                                                             *)
(***************************************************************************)
C15_RatingSummary ==
    (Analyzed /\ Rated # {}) =>
        /\ \A stars \in 1..5 :
              IsPercentage(Result.rating_summary[StarKey(stars)],
                           Cardinality({k \in Rated :
                                          Floor(product_reviews[k].rating[1]) = stars}),
                           Cardinality(Rated))
        /\ Result.rating_summary.total_ratings = Cardinality(Rated)
        /\ SumsTo100(Tenths(Result.rating_summary["1_star"])
                     + Tenths(Result.rating_summary["2_star"])
                     + Tenths(Result.rating_summary["3_star"])
                     + Tenths(Result.rating_summary["4_star"])
                     + Tenths(Result.rating_summary["5_star"]))

\* a summary of three rated records, one of them rated 4.5, whose rounded
\* percentages do not sum to exactly 100.0
C15_ThirdsSummarised ==
    /\ Analyzed
    /\ Cardinality(Rated) = 3
    /\ \E k \in Rated : product_reviews[k].rating[1] = [n |-> 90, d |-> 20]
    /\ Tenths(Result.rating_summary["4_star"]) = 333
    /\ Tenths(Result.rating_summary["1_star"]) + Tenths(Result.rating_summary["2_star"])
         + Tenths(Result.rating_summary["3_star"]) + Tenths(Result.rating_summary["4_star"])
         + Tenths(Result.rating_summary["5_star"]) # 1000

(***************************************************************************)
(* C16.  analyze_reviews run on an empty record list returns, without      *)
(* calling any external service, a result with total_reviews = 0,          *)
(* average_rating = 0.0 and every percentage of sentiment_distribution and *)
(* of rating_summary (1_star to 5_star) equal to 0.                        *)
(***************************************************************************)
C16_EmptyAllZero ==
    (Analyzed /\ product_reviews = <<>>) =>
        /\ responses = <<>>
        /\ Result.total_reviews = 0
        /\ Result.average_rating.n = 0
        /\ \A l \in {"positive", "negative", "neutral"} :
              Result.sentiment_distribution[l].n = 0
        /\ \A stars \in 1..5 :
              /\ StarKey(stars) \in DOMAIN Result.rating_summary
              /\ Result.rating_summary[StarKey(stars)].n = 0

\* C16 as the code has it: the result of the empty list has total_reviews =
\* 0, average_rating = 0.0, the three percentages of sentiment_distribution
\* equal to 0, empty lists of insights, and an empty rating_summary, which
\* holds no N_star percentage and no total_ratings; no external service is
\* called.
C16_EmptyResult ==
    (Analyzed /\ product_reviews = <<>>) =>
        /\ responses = <<>>
        /\ DOMAIN Result = ResultKeys
        /\ Result.total_reviews = 0
        /\ Result.average_rating.n = 0
        /\ \A l \in {"positive", "negative", "neutral"} :
              Result.sentiment_distribution[l].n = 0
        /\ DOMAIN Result.rating_summary = {}
        /\ Result.key_insights = <<>> /\ Result.pros = <<>>
        /\ Result.cons = <<>> /\ Result.recommendations = <<>>

\* analyze_reviews has returned for the empty list
C16_EmptyAnalyzed == Analyzed /\ product_reviews = <<>> /\ analysis_result # None

\* the outcome of the sentiment call of record k
SentimentCall(k) == responses[k]

\* the outcome of the insight call
InsightCall == responses[Len(product_reviews) + 1]

\* the result is complete and every record whose sentiment call failed is
\* labelled neutral with score 0.5
Degraded ==
    /\ DOMAIN Result = ResultKeys
    /\ Result.total_reviews = Len(product_reviews)
    /\ Len(responses) = Len(product_reviews) + 1
    /\ \A k \in 1..Len(product_reviews) :
          ~SentimentCall(k).ok =>
              /\ product_reviews[k].sentiment_label = "neutral"
              /\ product_reviews[k].sentiment_score = Half

(***************************************************************************)
(* C17.  For every non-empty record list and every combination of failures *)
(* of the sentiment and insight calls, analyze_reviews returns a complete  *)
(* result: each record whose sentiment call failed is labelled neutral     *)
(* with score 0.5, and when the insight call fails key_insights, pros,     *)
(* cons and recommendations are all empty lists.                           *)
(***************************************************************************)
C17_FailuresGiveEmptyLists ==
    (Analyzed /\ product_reviews # <<>>) =>
        /\ Degraded
        /\ ~InsightCall.ok =>
              /\ Result.key_insights = <<>> /\ Result.pros = <<>>
              /\ Result.cons = <<>> /\ Result.recommendations = <<>>

\* C17 as the code has it: when the insight call fails, key_insights is the
\* one placeholder "Unable to generate insights automatically" and pros,
\* cons and recommendations are empty lists; the rest as claimed.
C17_FailuresGivePlaceholder ==
    (Analyzed /\ product_reviews # <<>>) =>
        /\ Degraded
        /\ ~InsightCall.ok =>
              /\ Result.key_insights = <<"Unable to generate insights automatically">>
              /\ Result.pros = <<>>
              /\ Result.cons = <<>> /\ Result.recommendations = <<>>

\* analyze_reviews has returned after a failed sentiment call, a sentiment
\* call that succeeded and a failed insight call
C17_AllKindsFailed ==
    /\ Analyzed
    /\ \E k \in 1..Len(product_reviews) : ~SentimentCall(k).ok
    /\ \E k \in 1..Len(product_reviews) :
          SentimentCall(k).ok /\ product_reviews[k].sentiment_label = "positive"
    /\ ~InsightCall.ok

(***************************************************************************)
(* A product without reviews, and what the stages do to the records        *)
(***************************************************************************)
\* main is past the test of line 219
PastFetch == pc \notin {"dedup", "fetched"}

EmptyStore == products = <<>> /\ review_rows = <<>> /\ analysis_rows = <<>>

AllZero(result) ==
    /\ result.total_reviews = 0
    /\ result.average_rating = Zero
    /\ \A label \in DOMAIN result.sentiment_distribution :
          result.sentiment_distribution[label] = 0

\* C18 as stated: with no review records after the fetch, the analysis returns
\* an all-zero result, the caller reports that no reviews were found, and no
\* row is written.
C18_EmptyAnalysisReturned ==
    (PastFetch /\ product_reviews = <<>>) =>
        /\ analysis_result # None
        /\ AllZero(analysis_result[1])
        /\ message = NO_REVIEWS
        /\ EmptyStore

\* C18 as the code has it: with no review records after the fetch, main
\* reports that no reviews were found and returns; the analysis is not run
\* and no row is written.  A completed analysis reports nothing of the kind
\* and has written its rows.
C18_NoReviewsReported ==
    /\ (PastFetch /\ product_reviews = <<>>) =>
          /\ pc = "returned"
          /\ message = NO_REVIEWS
          /\ analysis_result = None
          /\ responses = <<>>
          /\ EmptyStore
    /\ pc = "complete" =>
          /\ message = ""
          /\ analysis_result # None
          /\ analysis_result[1].total_reviews = Len(product_reviews)
          /\ product_reviews # <<>>
          /\ Len(products) = 1
          /\ Len(analysis_rows) = 1

\* pages gave records and none of them was kept
C18_AllDropped ==
    /\ pc = "returned"
    /\ all_reviews # <<>>
    /\ product_reviews = <<>>
    /\ message = NO_REVIEWS

SentimentFields == {"sentiment_label", "sentiment_score"}

\* a record without its sentiment fields
Scraped(review) == [k \in DOMAIN review \ SentimentFields |-> review[k]]

\* the deduplicator reads its input and appends input records as they are
DedupKeepsRecords ==
    /\ all_reviews' = all_reviews
    /\ \/ unique_reviews' = unique_reviews
       \/ /\ pc = "dedup"
          /\ unique_reviews' = Append(unique_reviews, all_reviews[next_review])
       \/ pc' = "dedup" /\ unique_reviews' = <<>>

\* C19 as stated: no stage changes a record it has received.
C19_RecordsNeverChanged ==
    [][DedupKeepsRecords /\ (PastFetch => product_reviews' = product_reviews)]_vars

\* C19 as the code has it: the deduplicator changes no record; the analysis
\* adds sentiment_label and sentiment_score to each record of the list it
\* was given and changes nothing else of it; the writes to the database
\* change no record.
C19_OnlySentimentAdded ==
    [][/\ DedupKeepsRecords
       /\ PastFetch =>
             /\ Len(product_reviews') = Len(product_reviews)
             /\ \A k \in 1..Len(product_reviews) :
                   /\ Scraped(product_reviews'[k]) = Scraped(product_reviews[k])
                   /\ DOMAIN product_reviews'[k] \in
                         { DOMAIN product_reviews[k],
                           DOMAIN product_reviews[k] \cup SentimentFields }
                   /\ (pc # "sentiment" \/ k # next_analyzed) =>
                         product_reviews'[k] = product_reviews[k]
      ]_vars

\* the analysis has written the sentiment of the first of two records
C19_FirstAnalysed ==
    /\ pc = "sentiment"
    /\ Len(product_reviews) = 2
    /\ next_analyzed = 2
    /\ SentimentFields \subseteq DOMAIN product_reviews[1]
    /\ SentimentFields \cap DOMAIN product_reviews[2] = {}
    /\ product_reviews[1].reviewer_name # None

(***************************************************************************)
(* Duplicates in the reviews table                                         *)
(***************************************************************************)
\* two rows of one product with the same text and the same reviewer name,
\* an absent name being the same as an absent name
SameReview(x, y) ==
    /\ x.product_id = y.product_id
    /\ x.review_text = y.review_text
    /\ x.reviewer_name = y.reviewer_name

NoDuplicateRows ==
    \A x, y \in 1..Len(review_rows) :
        x < y => ~SameReview(review_rows[x], review_rows[y])

\* the step is a call of add_reviews with the arguments of the call before it
RepeatedAdd ==
    /\ arg.op = "add_reviews"
    /\ arg' = arg
    /\ calls' = calls + 1

\* C20: after any sequence of add_reviews calls no two rows of a product have
\* the same review_text and the same reviewer_name, and add_reviews called a
\* second time with the same record list inserts nothing and returns 0.
C20_AvoidsDuplicates ==
    [][/\ NoDuplicateRows'
       /\ RepeatedAdd => (review_rows' = review_rows /\ added_count' = 0)]_vars

(***************************************************************************)
(* The analysis of a product in the store                                  *)
(***************************************************************************)
OneAnalysisPerProduct ==
    \A x, y \in 1..Len(analysis_rows) :
        x < y => analysis_rows[x].product_id # analysis_rows[y].product_id

\* the step is a call of save_analysis for pid that committed
SavedFor(pid) ==
    /\ calls' = calls + 1
    /\ arg'.op = "save_analysis"
    /\ arg'.outcome = "commit"
    /\ arg'.product_id = pid

\* the step is a call of save_analysis that raised
SaveRaised ==
    /\ calls' = calls + 1
    /\ arg'.op = "save_analysis"
    /\ arg'.outcome # "commit"

\* what get_analysis returned is the result that was saved, a list that is
\* absent being the same as an empty list
SameResult(loaded, result) ==
    /\ loaded # None
    /\ loaded[1].total_reviews = result.total_reviews
    /\ loaded[1].average_rating = result.average_rating
    /\ loaded[1].sentiment_distribution = result.sentiment_distribution
    /\ loaded[1].rating_summary = result.rating_summary
    /\ loaded[1].key_insights = result.key_insights
    /\ loaded[1].pros = result.pros
    /\ loaded[1].cons = result.cons
    /\ Get(loaded[1], "recommendations", <<>>) = result.recommendations

\* C21: after any sequence of save_analysis calls the store holds at most one
\* analysis row per product and get_analysis returns the result passed to
\* the most recent save_analysis of the product; a save_analysis that fails
\* leaves the rows as they were.
C21_LastSavedReturned ==
    [][/\ OneAnalysisPerProduct'
       /\ \A k \in 1..Len(products) :
             IF SavedFor(products[k].id)
             THEN SameResult(get_analysis(products[k].id)', arg'.analysis)
             ELSE get_analysis(products[k].id)' = get_analysis(products[k].id)
       /\ SaveRaised => analysis_rows' = analysis_rows
      ]_vars

(***************************************************************************)
(* Records and marker lines                                                *)
(***************************************************************************)
\* the marker lines among the lines the loop has processed
MarkersSeen == {j \in 1..Len(lines) : j < i /\ IsMarker(j)}

\* the rating token captured on the marker line j
Token(j) == rating_match(Seen(j)).groups[1]

\* the k-th line of a set of lines
Kth(S, k) == CHOOSE m \in S : Cardinality({h \in S : h < m}) = k - 1

\* each record has the rating of its own marker line, in the order of the page
FromDistinctMarkers ==
    LET rating == [j \in MarkersSeen |-> _normalize_rating(Token(j))]
    IN  \E S \in SUBSET DOMAIN rating :
            /\ Cardinality(S) = Len(reviews)
            /\ \A k \in 1..Len(reviews) : reviews[k].rating = rating[Kth(S, k)]

(***************************************************************************)
(* C22.  For every page, the number of records the segmenter emits is at   *)
(* most the number of non-skipped lines on which the Pattern Matcher found *)
(* a marker; each emitted record corresponds to a distinct marker line,    *)
(* whose rating token it carries; a page without any such line emits no    *)
(* record.                                                                 *)
(***************************************************************************)
C22_RecordsWithinMarkers ==
    /\ reviews # <<>> =>
          /\ Len(reviews) <= Cardinality(MarkersSeen)
          /\ FromDistinctMarkers
          /\ \E j \in 1..Len(lines) : IsMarker(j)

\* a page of three lines, two of them marker lines, has returned two records
C22_TwoOfThree ==
    /\ pc = "done"
    /\ Len(lines) = 3
    /\ Cardinality(MarkersSeen) = 2
    /\ Len(reviews) = 2

(***************************************************************************)
(* Prose before the first marker line                                      *)
(***************************************************************************)
\* the marker lines of the page
Markers == {j \in 1..Len(lines) : IsMarker(j)}

\* the line before the first of the marker lines ms after m, or the last line
SegmentEnd(ms, m) ==
    IF \E n \in ms : n > m THEN Min({n \in ms : n > m}) - 1 ELSE Len(lines)

\* each record has the text accumulated from its own marker line to the
\* next one
FromMarkerOnwards ==
    reviews # <<>> =>
        LET ms   == Markers
            text == [j \in {m \in ms : m < i} |->
                        Strip(Accumulated(j, SegmentEnd(ms, j)))]
        IN  \E S \in SUBSET DOMAIN text :
                /\ Cardinality(S) = Len(reviews)
                /\ \A k \in 1..Len(reviews) :
                      reviews[k].review_text = text[Kth(S, k)]

\* a line before the first marker line that is in a record is in a line
\* from the first marker line on
EarlyProseDropped ==
    reviews # <<>> =>
        LET first == Min(Markers \cup {Len(lines) + 1})
        IN  \A j \in 1..(first - 1) : \A k \in 1..Len(reviews) :
                (Kept(j) /\ Contains(reviews[k].review_text, Seen(j))) =>
                    \E h \in first..Len(lines) : Contains(Seen(h), Seen(j))

(***************************************************************************)
(* C23.  When a marker line arrives while the buffer is non-empty but no   *)
(* rating token is known, the segmenter emits nothing and overwrites the   *)
(* buffer with the marker's capture: every record's text is accumulated    *)
(* from a marker line on, and prose accumulated before the first marker of *)
(* a page never appears in any emitted record.                             *)
(***************************************************************************)
C23_UnratedBufferDropped ==
    /\ [][(AtLine /\ IsMarker(i) /\ current_review # "" /\ ~TokenKnown) =>
             /\ reviews' = reviews
             /\ current_review' = Accumulated(i, i)
             /\ current_rating' = Some(Token(i))
         ]_vars
    /\ [](FromMarkerOnwards /\ EarlyProseDropped)

\* the classifier seeded the buffer with the first line, the second line is a
\* marker line, and the page has returned one record without the first line
C23_SeededThenMarker ==
    /\ pc = "done"
    /\ Len(lines) = 2
    /\ Kept(1) /\ ~IsMarker(1) /\ _is_likely_review(Seen(1))
    /\ IsMarker(2)
    /\ Len(reviews) = 1
    /\ ~Contains(reviews[1].review_text, Seen(1))

====
